---- MODULE Spec2Model ----
(***************************************************************************)
(* Model of scripts/generate-openapi/generate.py of mu-search: the script  *)
(* that compiles the search configuration (config.json) into an OpenAPI    *)
(* 3.0 document with one /{type}/search path per indexed type.             *)
(*                                                                         *)
(* Python values are modelled as follows.                                  *)
(*  - a JSON object of the input is a function from its keys (strings) to  *)
(*    its values; a missing key is a key outside DOMAIN, and d[k] on it    *)
(*    raises KeyError(k);                                                  *)
(*  - a dict the script builds with computed keys (a properties mapping,   *)
(*    paths_obj) is a sequence of [key, val] records in insertion order,   *)
(*    which is the order json.dump writes;                                 *)
(*  - the dicts returned by search_conf_props_to_openapi_props are objects *)
(*    on a heap, held by reference (an address) from the structures that   *)
(*    contain them, because the script mutates one of them in place        *)
(*    (v["enum"] = ...) after building it;                                 *)
(*  - an uncaught exception ends the process before the output is written. *)
(***************************************************************************)
EXTENDS Integers, Sequences, FiniteSets, TLC

VARIABLES mu_search_config, pc, i, heap, brk, paths_obj, openapi, sort_props,
          STATIC_PARAMETERS, result, file, run, first

vars ==
    <<mu_search_config, pc, i, heap, brk, paths_obj, openapi, sort_props,
      STATIC_PARAMETERS, result, file, run, first>>

-----------------------------------------------------------------------------
(* Bounds of the input configurations.                                     *)

\* most types in one configuration
MaxTypes == 2

\* most fields declared in one configuration, all its types together
MaxFields == 2

\* the type identifiers a configuration draws from
TypeNames == {"person", "document"}

\* the field names a mapping draws from
FieldNames == {"name", "age"}

\* the declared primitive types a field draws from; "float" is not in the table
PrimitiveTypes == {"text", "keyword", "date", "integer", "float"}

-----------------------------------------------------------------------------
(* Module-level values of the script.                                      *)

es_type_to_openapi_type ==
    ("text" :> "string") @@ ("keyword" :> "string") @@
    ("date" :> "string") @@ ("integer" :> "integer")

StaticParametersLiteral ==
    << [in |-> "query",
        name |-> "page",
        description |-> "For more info, read the mu-search documentation on [Pagination](https://github.com/mu-semtech/mu-search#pagination).",
        explode |-> TRUE,
        style |-> "deepObject",
        schema |-> [type |-> "object",
                    properties |-> << [key |-> "size", val |-> [type |-> "integer"]],
                                      [key |-> "number", val |-> [type |-> "integer"]] >>]],
       [in |-> "query",
        name |-> "collapse_uuids",
        description |-> "For more info, read the mu-search documentation on [Removing duplicate results](https://github.com/mu-semtech/mu-search#removing-duplicate-results).",
        explode |-> TRUE,
        style |-> "form",
        schema |-> [type |-> "string", enum |-> <<"t">>]] >>

OpenapiLiteral ==
    [openapi |-> "3.0.0",
     info |-> [title |-> "Mu-search api description", version |-> "Our version"],
     paths |-> <<>>]

-----------------------------------------------------------------------------
(* Python dicts with computed keys: sequences of [key, val] in insertion   *)
(* order.                                                                  *)

KeySeq(d) ==
    [j \in DOMAIN d |-> d[j].key]

KeySet(d) ==
    {d[j].key : j \in DOMAIN d}

DictGet(d, k) ==
    d[CHOOSE j \in DOMAIN d : d[j].key = k].val

\* DictSet as a list of pairs that is only ever appended to
DictSetAppending(d, k, v) ==
    Append(d, [key |-> k, val |-> v])

\* d[k] = v: an existing key keeps its position and takes the new value
DictSet(d, k, v) ==
    IF k \in KeySet(d)
    THEN [j \in DOMAIN d |-> IF d[j].key = k THEN [key |-> k, val |-> v] ELSE d[j]]
    ELSE Append(d, [key |-> k, val |-> v])

-----------------------------------------------------------------------------
(* search_conf_props_to_openapi_props: the loop stops at the first field   *)
(* whose lookup raises.                                                    *)

Raising(s_conf_props) ==
    {j \in DOMAIN s_conf_props :
        \/ "type" \notin DOMAIN s_conf_props[j].val
        \/ s_conf_props[j].val.type \notin DOMAIN es_type_to_openapi_type}

\* the builder skipping the fields whose type is not in the table
\* (es_type_to_openapi_type.get, continue)
search_conf_props_skipping(s_conf_props) ==
    LET Mapped(e) == "type" \in DOMAIN e.val /\ e.val.type \in DOMAIN es_type_to_openapi_type
        kept == SelectSeq(s_conf_props, Mapped)
    IN [raised |-> FALSE,
        exc |-> "",
        key |-> "",
        props |-> [j \in DOMAIN kept |->
                     [key |-> kept[j].key,
                      val |-> [type |-> es_type_to_openapi_type[kept[j].val.type]]]]]

\* the builder losing the last field of the mapping
search_conf_props_dropping_last(s_conf_props) ==
    IF Raising(s_conf_props) # {}
    THEN [raised |-> TRUE, exc |-> "KeyError", key |-> "float", props |-> <<>>]
    ELSE [raised |-> FALSE,
          exc |-> "",
          key |-> "",
          props |-> [j \in 1..(Len(s_conf_props) - 1) |->
                       [key |-> s_conf_props[j].key,
                        val |-> [type |-> es_type_to_openapi_type[s_conf_props[j].val.type]]]]]

search_conf_props_to_openapi_props(s_conf_props) ==
    IF Raising(s_conf_props) # {}
    THEN LET j == CHOOSE m \in Raising(s_conf_props) :
                      \A n \in Raising(s_conf_props) : m <= n
         IN [raised |-> TRUE,
             exc |-> "KeyError",
             key |-> IF "type" \notin DOMAIN s_conf_props[j].val
                     THEN "type" ELSE s_conf_props[j].val.type,
             props |-> <<>>]
    ELSE [raised |-> FALSE,
          exc |-> "",
          key |-> "",
          props |-> [j \in DOMAIN s_conf_props |->
                       [key |-> s_conf_props[j].key,
                        val |-> [type |-> es_type_to_openapi_type[s_conf_props[j].val.type]]]]]

\* PropsOf with defaults for the missing keys
\* (type.get("mappings", {}).get("properties", {}))
PropsOfWithDefaults(type) ==
    IF "mappings" \notin DOMAIN type
    THEN search_conf_props_to_openapi_props(<<>>)
    ELSE IF "properties" \notin DOMAIN type.mappings
    THEN search_conf_props_to_openapi_props(<<>>)
    ELSE search_conf_props_to_openapi_props(type.mappings.properties)

\* search_conf_props_to_openapi_props(type["mappings"]["properties"]):
\* the argument is evaluated first
PropsOf(type) ==
    IF "mappings" \notin DOMAIN type
    THEN [raised |-> TRUE, exc |-> "KeyError", key |-> "mappings", props |-> <<>>]
    ELSE IF "properties" \notin DOMAIN type.mappings
    THEN [raised |-> TRUE, exc |-> "KeyError", key |-> "properties", props |-> <<>>]
    ELSE search_conf_props_to_openapi_props(type.mappings.properties)

\* f"/{type['type']}/search"
PathOf(name) ==
    "/" \o name \o "/search"

\* the dict literal assigned to paths_obj[path]; attributes is the address of
\* the properties dict
PathItemLiteral(name, attributes) ==
    [get |->
       [description |-> "Search the " \o name \o " index",
        responses |->
          ("200" :>
             [description |-> "Search results",
              content |->
                ("application/json" :>
                   [schema |->
                      [type |-> "object",
                       properties |->
                         [data |->
                            [type |-> "object",
                             properties |->
                               [id |-> [type |-> "string"],
                                type |-> [type |-> "string"],
                                attributes |->
                                  [type |-> "object",
                                   properties |-> attributes]]]]]])])],
     parameters |-> <<>>]

FilterLiteral(properties) ==
    [in |-> "query",
     name |-> "filter",
     description |-> "Note that more filtering options exist than what it expressable in Openapi.\n    Read the mu-search documentation on [Supported search methods](https://github.com/mu-semtech/mu-search#supported-search-methods) for more info",
     explode |-> TRUE,
     style |-> "deepObject",
     schema |-> [type |-> "object", properties |-> properties]]

SortLiteral(properties) ==
    [in |-> "query",
     name |-> "sort",
     description |-> "For more info, read the mu-search documentation on [sorting](https://github.com/mu-semtech/mu-search#sorting).",
     explode |-> TRUE,
     style |-> "deepObject",
     schema |-> [type |-> "object", properties |-> properties]]

\* AddEnum leaving the integer properties without the enum
AddEnumToStrings(props) ==
    [j \in DOMAIN props |->
       [key |-> props[j].key,
        val |-> IF props[j].val.type = "string"
                THEN [type |-> props[j].val.type, enum |-> <<"asc", "desc">>]
                ELSE props[j].val]]

\* for k, v in sort_props.items(): v["enum"] = ["asc", "desc"]
AddEnum(props) ==
    [j \in DOMAIN props |->
       [key |-> props[j].key,
        val |-> [type |-> props[j].val.type, enum |-> <<"asc", "desc">>]]]

\* AppendParameter inserting at the head of the list (insert(0, p))
AppendParameterAtHead(d, path, p) ==
    [j \in DOMAIN d |->
       IF d[j].key = path
       THEN [d[j] EXCEPT !.val.parameters = <<p>> \o @]
       ELSE d[j]]

\* paths_obj[path]["parameters"].append(p)
AppendParameter(d, path, p) ==
    [j \in DOMAIN d |->
       IF d[j].key = path
       THEN [d[j] EXCEPT !.val.parameters = Append(@, p)]
       ELSE d[j]]

\* paths_obj[path]["parameters"].extend(STATIC_PARAMETERS): the list takes
\* references to the module-level dicts
ExtendParameters(d, path, statics) ==
    [j \in DOMAIN d |->
       IF d[j].key = path
       THEN [d[j] EXCEPT !.val.parameters =
                @ \o [k \in DOMAIN statics |-> [static |-> k]]]
       ELSE d[j]]

-----------------------------------------------------------------------------
(* json.dump: the document as written, every reference followed.           *)

\* Dump writing the references themselves instead of following them
DumpReferences(doc, h, statics) ==
    doc

DumpParameter(p, h, statics) ==
    IF "static" \in DOMAIN p
    THEN statics[p.static]
    ELSE [p EXCEPT !.schema.properties = h[@]]

DumpPathItem(item, h, statics) ==
    [item EXCEPT
       !.get.responses["200"].content["application/json"].schema.properties.data.properties.attributes.properties = h[@],
       !.parameters = [j \in DOMAIN @ |-> DumpParameter(@[j], h, statics)]]

Dump(doc, h, statics) ==
    [doc EXCEPT !.paths =
       [j \in DOMAIN @ |->
          [key |-> @[j].key, val |-> DumpPathItem(@[j].val, h, statics)]]]

-----------------------------------------------------------------------------
(* The input configurations.                                               *)

PropsDicts ==
    {p \in UNION {[1..n -> [key : FieldNames, val : [type : PrimitiveTypes]]] :
                     n \in {m \in 0..MaxFields : m <= Cardinality(FieldNames)}} :
        \A a, b \in DOMAIN p : a # b => p[a].key # p[b].key}

\* the elements of types: well-formed ones, and ones without properties,
\* without mappings and without type
TypeObjects ==
    {[type |-> n, mappings |-> [properties |-> p]] : n \in TypeNames, p \in PropsDicts}
    \cup {[type |-> "person", mappings |-> [dynamic |-> FALSE]]}
    \cup {[type |-> "person"]}
    \cup {[mappings |-> [properties |-> <<>>]]}

FieldCount(type) ==
    IF "mappings" \in DOMAIN type /\ "properties" \in DOMAIN type.mappings
    THEN Len(type.mappings.properties) ELSE 0

RECURSIVE TotalFields(_)
TotalFields(types) ==
    IF types = <<>> THEN 0
    ELSE FieldCount(Head(types)) + TotalFields(Tail(types))

\* config.json as loaded: a document without types, or one with a sequence
\* of at most MaxTypes types that declare at most MaxFields fields together
IsConfig(c) ==
    \/ c = [batch_size |-> 128]
    \/ \E n \in 0..MaxTypes :
          \E ts \in [1..n -> TypeObjects] :
             TotalFields(ts) <= MaxFields /\ c = [types |-> ts]

-----------------------------------------------------------------------------
(* The run.                                                                *)

Running == [status |-> "running", exc |-> "", key |-> ""]

Init ==
    /\ IsConfig(mu_search_config)
    /\ pc = "types"
    /\ i = 0
    /\ heap = <<>>
    /\ brk = 1
    /\ paths_obj = <<>>
    /\ openapi = OpenapiLiteral
    /\ sort_props = 0
    /\ STATIC_PARAMETERS = StaticParametersLiteral
    /\ result = Running
    /\ file = <<>>
    /\ run = 1
    /\ first = <<>>

\* Raise with the output written on the way out (the dump in a finally)
RaiseAndDump(exc, key) ==
    /\ result' = [status |-> "failed", exc |-> exc, key |-> key]
    /\ pc' = "done"
    /\ file' = <<Dump([openapi EXCEPT !.paths = paths_obj], heap, STATIC_PARAMETERS)>>

\* an uncaught exception: the traceback is printed and the process exits
Raise(exc, key) ==
    /\ result' = [status |-> "failed", exc |-> exc, key |-> key]
    /\ pc' = "done"
    /\ file' = file

\* line 80, mu_search_config["types"]
Types ==
    /\ pc = "types"
    /\ IF "types" \notin DOMAIN mu_search_config
       THEN Raise("KeyError", "types")
       ELSE pc' = "for" /\ UNCHANGED <<result, file>>
    /\ UNCHANGED <<mu_search_config, i, heap, brk, paths_obj, openapi,
                   sort_props, STATIC_PARAMETERS, run, first>>

CurType == mu_search_config.types[i]

CurPath == PathOf(CurType.type)

\* lines 80-118, one iteration: the path and the path item of the next type
PathItem ==
    /\ pc = "for"
    /\ i < Len(mu_search_config.types)
    /\ i' = i + 1
    /\ LET type == mu_search_config.types[i + 1]
           r == PropsOf(type)
       IN IF "type" \notin DOMAIN type
          THEN Raise("KeyError", "type") /\ UNCHANGED <<heap, brk, paths_obj>>
          ELSE IF r.raised
          THEN Raise(r.exc, r.key) /\ UNCHANGED <<heap, brk, paths_obj>>
          ELSE /\ heap' = heap @@ (brk :> r.props)
               /\ brk' = brk + 1
               /\ paths_obj' = DictSet(paths_obj, PathOf(type.type),
                                       PathItemLiteral(type.type, brk))
               /\ pc' = "filter"
               /\ UNCHANGED <<result, file>>
    /\ UNCHANGED <<mu_search_config, openapi, sort_props, STATIC_PARAMETERS,
                   run, first>>

\* lines 119-130
AppendFilter ==
    /\ pc = "filter"
    /\ LET r == PropsOf(CurType)
       IN IF r.raised
          THEN Raise(r.exc, r.key) /\ UNCHANGED <<heap, brk, paths_obj>>
          ELSE /\ heap' = heap @@ (brk :> r.props)
               /\ brk' = brk + 1
               /\ paths_obj' = AppendParameter(paths_obj, CurPath, FilterLiteral(brk))
               /\ pc' = "sort_props"
               /\ UNCHANGED <<result, file>>
    /\ UNCHANGED <<mu_search_config, i, openapi, sort_props, STATIC_PARAMETERS,
                   run, first>>

\* SortProps taking the dict of the filter parameter for sort_props instead
\* of building a new one
SortPropsShared ==
    /\ pc = "sort_props"
    /\ sort_props' = DictGet(paths_obj, CurPath).parameters[1].schema.properties
    /\ heap' = [heap EXCEPT ![sort_props'] = AddEnum(@)]
    /\ pc' = "sort"
    /\ UNCHANGED <<mu_search_config, i, brk, paths_obj, openapi, STATIC_PARAMETERS,
                   result, file, run, first>>

\* lines 132-134
SortProps ==
    /\ pc = "sort_props"
    /\ LET r == PropsOf(CurType)
       IN IF r.raised
          THEN Raise(r.exc, r.key) /\ UNCHANGED <<heap, brk, sort_props>>
          ELSE /\ sort_props' = brk
               /\ heap' = heap @@ (brk :> AddEnum(r.props))
               /\ brk' = brk + 1
               /\ pc' = "sort"
               /\ UNCHANGED <<result, file>>
    /\ UNCHANGED <<mu_search_config, i, paths_obj, openapi, STATIC_PARAMETERS,
                   run, first>>

\* lines 135-145
AppendSort ==
    /\ pc = "sort"
    /\ paths_obj' = AppendParameter(paths_obj, CurPath, SortLiteral(sort_props))
    /\ pc' = "static"
    /\ UNCHANGED <<mu_search_config, i, heap, brk, openapi, sort_props,
                   STATIC_PARAMETERS, result, file, run, first>>

\* ExtendStatic writing the type into the description of the shared page
\* parameter before appending
ExtendStaticDescribed ==
    /\ pc = "static"
    /\ STATIC_PARAMETERS' =
          [STATIC_PARAMETERS EXCEPT ![1].description = "Pagination of " \o CurType.type]
    /\ paths_obj' = ExtendParameters(paths_obj, CurPath, STATIC_PARAMETERS)
    /\ pc' = "for"
    /\ UNCHANGED <<mu_search_config, i, heap, brk, openapi, sort_props,
                   result, file, run, first>>

\* line 146
ExtendStatic ==
    /\ pc = "static"
    /\ paths_obj' = ExtendParameters(paths_obj, CurPath, STATIC_PARAMETERS)
    /\ pc' = "for"
    /\ UNCHANGED <<mu_search_config, i, heap, brk, openapi, sort_props,
                   STATIC_PARAMETERS, result, file, run, first>>

\* lines 148-156, after the last iteration
WriteFile ==
    /\ pc = "for"
    /\ i = Len(mu_search_config.types)
    /\ openapi' = [openapi EXCEPT !.paths = paths_obj]
    /\ file' = <<Dump(openapi', heap, STATIC_PARAMETERS)>>
    /\ result' = [status |-> "ok", exc |-> "", key |-> ""]
    /\ pc' = "done"
    /\ UNCHANGED <<mu_search_config, i, heap, brk, paths_obj, sort_props,
                   STATIC_PARAMETERS, run, first>>

\* the script is run a second time on the same config.json, in a new process:
\* the outcome and the document of the first run are kept aside, the module is
\* loaded afresh, and the new process's objects are at other addresses
Again ==
    /\ pc = "done"
    /\ run = 1
    /\ first' = <<[result |-> result, file |-> file]>>
    /\ run' = 2
    /\ pc' = "types"
    /\ i' = 0
    /\ heap' = <<>>
    /\ paths_obj' = <<>>
    /\ openapi' = OpenapiLiteral
    /\ sort_props' = 0
    /\ STATIC_PARAMETERS' = StaticParametersLiteral
    /\ result' = Running
    /\ file' = <<>>
    /\ UNCHANGED <<mu_search_config, brk>>

Next ==
    \/ Types
    \/ PathItem
    \/ AppendFilter
    \/ SortProps
    \/ AppendSort
    \/ ExtendStatic
    \/ WriteFile
    \/ Again

Spec == Init /\ [][Next]_vars

-----------------------------------------------------------------------------
(* Vocabulary of the properties.                                           *)

\* the run has completed and written its document
Completed ==
    pc = "done" /\ result.status = "ok"

\* the run has ended in an uncaught exception
Failed ==
    pc = "done" /\ result.status = "failed"

SearchPath(n) ==
    "/" \o n \o "/search"

\* the fixed table of the Type Mapper
TypeMapperTable(t) ==
    CASE t = "text" -> "string"
      [] t = "keyword" -> "string"
      [] t = "date" -> "string"
      [] t = "integer" -> "integer"

InputTypes ==
    mu_search_config.types

InputNames ==
    {InputTypes[k].type : k \in DOMAIN InputTypes}

\* the fields declared by the type a path entry stands for: the last type of
\* the input with that name
Declared(path) ==
    LET ks == {k \in DOMAIN InputTypes : SearchPath(InputTypes[k].type) = path}
        k == CHOOSE m \in ks : \A n \in ks : n <= m
    IN InputTypes[k].mappings.properties

AttributesOf(item) ==
    item.get.responses["200"].content["application/json"].schema.properties.data.properties.attributes.properties

\* the properties of the parameters of a path item that are named n
PropertiesOf(item, n) ==
    {item.parameters[j].schema.properties :
        j \in {m \in DOMAIN item.parameters : item.parameters[m].name = n}}

ParameterNames(item) ==
    [j \in DOMAIN item.parameters |-> item.parameters[j].name]

PathItems(doc) ==
    {doc.paths[j] : j \in DOMAIN doc.paths}

Occurrences(doc, path) ==
    Cardinality({j \in DOMAIN doc.paths : doc.paths[j].key = path})

HasDuplicateNames ==
    \E a, b \in DOMAIN InputTypes : a # b /\ InputTypes[a].type = InputTypes[b].type

-----------------------------------------------------------------------------
(* C1: completeness of the paths mapping.                                  *)

\* C1, as claimed: in a completed run the document has as many path entries
\* as the input has types, and every type name of the input is the key
\* /{name}/search of exactly one entry, whatever the input sequence of types,
\* two types of one name included.
C1_OneEntryPerInputType ==
    Completed =>
        /\ Len(file[1].paths) = Len(InputTypes)
        /\ \A n \in InputNames : Occurrences(file[1], SearchPath(n)) = 1

\* C1, as amended: in a completed run the document has as many path entries
\* as the input has distinct type names (as many as it has types when the
\* names are pairwise distinct), every type name of the input is the key
\* /{name}/search of exactly one entry, and there is no other entry.
C1_OneEntryPerTypeName ==
    Completed =>
        /\ Len(file[1].paths) = Cardinality(InputNames)
        /\ ~HasDuplicateNames => Len(file[1].paths) = Len(InputTypes)
        /\ \A n \in InputNames : Occurrences(file[1], SearchPath(n)) = 1
        /\ \A e \in PathItems(file[1]) : \E n \in InputNames : e.key = SearchPath(n)

\* a completed run on two types of one name
C1_Witness ==
    /\ Completed
    /\ Len(InputTypes) = 2
    /\ HasDuplicateNames
    /\ Len(file[1].paths) = 1

-----------------------------------------------------------------------------
(* C2: an unsupported primitive type is a hard failure.                    *)

UnsupportedFields ==
    {<<k, j>> \in (1..MaxTypes) \X (1..Cardinality(FieldNames)) :
        /\ "types" \in DOMAIN mu_search_config
        /\ k \in DOMAIN InputTypes
        /\ "mappings" \in DOMAIN InputTypes[k]
        /\ "properties" \in DOMAIN InputTypes[k].mappings
        /\ j \in DOMAIN InputTypes[k].mappings.properties
        /\ InputTypes[k].mappings.properties[j].val.type
              \notin {"text", "keyword", "date", "integer"}}

\* C2: when a field of a type of the input declares a primitive type outside
\* text, keyword, date, integer, the run never completes and never writes a
\* document, and when it has ended it has ended in the failure the table
\* lookup raises, a KeyError.
C2_UnsupportedFieldTypeFails ==
    UnsupportedFields # {} =>
        /\ file = <<>>
        /\ result.status # "ok"
        /\ pc = "done" => result = [status |-> "failed", exc |-> "KeyError", key |-> result.key]

\* a run ended by the lookup of "float", in the second type of the input
C2_Witness ==
    /\ Failed
    /\ result.key = "float"
    /\ i = 2
    /\ Len(paths_obj) = 1

-----------------------------------------------------------------------------
(* C3: all or nothing.                                                     *)

\* C3: a document is written only by a run that has processed every type of
\* the input with success, and it holds an entry for each of them; a run
\* that failed has written no document.
C3_AllOrNothing ==
    /\ file # <<>> =>
          /\ Completed
          /\ i = Len(InputTypes)
          /\ \A k \in DOMAIN InputTypes :
                /\ ~PropsOf(InputTypes[k]).raised
                /\ Occurrences(file[1], SearchPath(InputTypes[k].type)) = 1
          /\ \A e \in PathItems(file[1]) : Len(e.val.parameters) = 4
    /\ result.status = "failed" => file = <<>>

\* a run that failed on its second type, the first being in paths_obj already
C3_Witness ==
    /\ Failed
    /\ i = 2
    /\ Len(paths_obj) = 1
    /\ Len(paths_obj[1].val.parameters) = 4
    /\ file = <<>>

-----------------------------------------------------------------------------
(* C4: field coverage.                                                     *)

\* C4: in a completed document, for every path entry, the property names of
\* the attributes schema, of the filter parameter and of the sort parameter
\* are each the field names the entry's type declares.
C4_FieldCoverage ==
    Completed =>
        \A e \in PathItems(file[1]) :
           /\ KeySet(AttributesOf(e.val)) = KeySet(Declared(e.key))
           /\ Len(AttributesOf(e.val)) = Len(Declared(e.key))
           /\ PropertiesOf(e.val, "filter") # {}
           /\ PropertiesOf(e.val, "sort") # {}
           /\ \A p \in PropertiesOf(e.val, "filter") \cup PropertiesOf(e.val, "sort") :
                 /\ KeySet(p) = KeySet(Declared(e.key))
                 /\ Len(p) = Len(Declared(e.key))

\* a completed document with a type of two fields
C4_Witness ==
    /\ Completed
    /\ \E e \in PathItems(file[1]) :
          /\ KeySet(AttributesOf(e.val)) = {"name", "age"}
          /\ \A p \in PropertiesOf(e.val, "filter") \cup PropertiesOf(e.val, "sort") :
                KeySet(p) = {"name", "age"}

-----------------------------------------------------------------------------
(* C5: the sort properties.                                                *)

\* C5: in a completed document every property of every sort parameter is
\* {type: map(t), enum: [asc, desc]}, t the declared type of the field.
C5_SortEnum ==
    Completed =>
        \A e \in PathItems(file[1]) :
           \A p \in PropertiesOf(e.val, "sort") :
              /\ Len(p) = Len(Declared(e.key))
              /\ \A f \in DOMAIN p :
                    p[f].val = [type |-> TypeMapperTable(DictGet(Declared(e.key), p[f].key).type),
                                enum |-> <<"asc", "desc">>]

\* a completed document whose sort parameter has an integer and a string property
C5_Witness ==
    /\ Completed
    /\ \E e \in PathItems(file[1]) :
          \E p \in PropertiesOf(e.val, "sort") :
             /\ Len(p) = 2
             /\ p[1].val = [type |-> "string", enum |-> <<"asc", "desc">>]
             /\ p[2].val = [type |-> "integer", enum |-> <<"asc", "desc">>]

-----------------------------------------------------------------------------
(* C6: the attributes and filter properties.                               *)

\* C6: in a completed document every property of the attributes schema and
\* of the filter parameter is {type: map(t)} and nothing more, t the
\* declared type of the field: the enum of the sort properties is in none.
C6_NoEnumOutsideSort ==
    Completed =>
        \A e \in PathItems(file[1]) :
           \A p \in {AttributesOf(e.val)} \cup PropertiesOf(e.val, "filter") :
              /\ Len(p) = Len(Declared(e.key))
              /\ \A f \in DOMAIN p :
                    /\ p[f].val = [type |-> TypeMapperTable(DictGet(Declared(e.key), p[f].key).type)]
                    /\ "enum" \notin DOMAIN p[f].val

\* a completed document of two types with a field each, the sort properties
\* carrying the enum
C6_Witness ==
    /\ Completed
    /\ Len(file[1].paths) = 2
    /\ \A e \in PathItems(file[1]) :
          /\ Len(AttributesOf(e.val)) = 1
          /\ \A p \in PropertiesOf(e.val, "filter") : Len(p) = 1
          /\ \A p \in PropertiesOf(e.val, "sort") : "enum" \in DOMAIN p[1].val

-----------------------------------------------------------------------------
(* C7: the parameters of a path item.                                      *)

\* C7: in a completed document the parameters of every path item are four,
\* named filter, sort, page, collapse_uuids in this order.
C7_ParameterOrder ==
    Completed =>
        \A e \in PathItems(file[1]) :
           ParameterNames(e.val) = <<"filter", "sort", "page", "collapse_uuids">>

\* a completed document of two types, the second one without fields
C7_Witness ==
    /\ Completed
    /\ Len(file[1].paths) = 2
    /\ Len(AttributesOf(file[1].paths[1].val)) = 2
    /\ Len(AttributesOf(file[1].paths[2].val)) = 0

-----------------------------------------------------------------------------
(* C8: the static parameters.                                              *)

PageSchema ==
    [type |-> "object",
     properties |-> << [key |-> "size", val |-> [type |-> "integer"]],
                       [key |-> "number", val |-> [type |-> "integer"]] >>]

CollapseUuidsSchema ==
    [type |-> "string", enum |-> <<"t">>]

\* the documents written so far, by this run and by the one before
Written ==
    {file[j] : j \in DOMAIN file}
    \cup UNION {{first[j].file[m] : m \in DOMAIN first[j].file} : j \in DOMAIN first}

\* C8: the module-level static parameters are never modified, and in every
\* document written, of any input, the page and collapse_uuids parameters of
\* every path item are those two values: page an object schema of the
\* integer properties size and number, collapse_uuids a string schema of
\* enum [t].
C8_StaticParameters ==
    /\ STATIC_PARAMETERS = StaticParametersLiteral
    /\ \A d \in Written :
          \A e \in PathItems(d) :
             \A j \in DOMAIN e.val.parameters :
                LET p == e.val.parameters[j]
                IN /\ p.name = "page" =>
                        p = StaticParametersLiteral[1] /\ p.schema = PageSchema
                   /\ p.name = "collapse_uuids" =>
                        p = StaticParametersLiteral[2] /\ p.schema = CollapseUuidsSchema
                   /\ j > 2 => p.name \in {"page", "collapse_uuids"}

\* a completed document of two types, after the static parameters were
\* appended twice
C8_Witness ==
    /\ Completed
    /\ Len(file[1].paths) = 2
    /\ \A e \in PathItems(file[1]) :
          /\ e.val.parameters[3].schema = PageSchema
          /\ e.val.parameters[4].schema = CollapseUuidsSchema

-----------------------------------------------------------------------------
(* C9: a configuration without the required structure.                     *)

Malformed ==
    \/ "types" \notin DOMAIN mu_search_config
    \/ \E k \in DOMAIN InputTypes :
          \/ "type" \notin DOMAIN InputTypes[k]
          \/ "mappings" \notin DOMAIN InputTypes[k]
          \/ "properties" \notin DOMAIN InputTypes[k].mappings

\* the kind of the failure the lookup of an unsupported primitive type raises
UnsupportedFieldTypeKind ==
    search_conf_props_to_openapi_props(
        <<[key |-> "price", val |-> [type |-> "float"]]>>).exc

\* C9, as claimed: on a configuration without the required structure the run
\* writes no document and ends in a failure of a kind other than that of an
\* unsupported field type.
C9_DistinctKind ==
    Malformed =>
        /\ file = <<>>
        /\ pc = "done" => result.status = "failed" /\ result.exc # UnsupportedFieldTypeKind

\* C9, as amended: on a configuration without the required structure the run
\* never completes, writes no document, and ends in a KeyError, the kind of
\* failure an unsupported field type raises as well.
C9_MalformedFails ==
    Malformed =>
        /\ file = <<>>
        /\ result.status # "ok"
        /\ pc = "done" =>
              /\ result.status = "failed"
              /\ result.exc = "KeyError"
              /\ result.exc = UnsupportedFieldTypeKind
              /\ result.key \in {"types", "type", "mappings", "properties"} \cup PrimitiveTypes

\* a run ended by a type without mappings, after a first type was processed
C9_Witness ==
    /\ Failed
    /\ result.key = "mappings"
    /\ i = 2
    /\ file = <<>>

-----------------------------------------------------------------------------
(* C10: determinism.                                                       *)

RECURSIVE FirstOccurrences(_)
\* a sequence without the repetitions of its elements
FirstOccurrences(s) ==
    IF s = <<>> THEN <<>>
    ELSE LET r == FirstOccurrences(SubSeq(s, 1, Len(s) - 1))
         IN IF \E j \in DOMAIN r : r[j] = s[Len(s)] THEN r ELSE Append(r, s[Len(s)])

\* C10: a second run on the same configuration ends as the first one did: in
\* the same failure, or with the same document, whose path entries are in the
\* order of the input types and whose properties are in the order of the
\* declared fields.
C10_Deterministic ==
    (run = 2 /\ pc = "done") =>
        /\ first[1] = [result |-> result, file |-> file]
        /\ Completed =>
              /\ KeySeq(file[1].paths) =
                    FirstOccurrences([k \in DOMAIN InputTypes |-> SearchPath(InputTypes[k].type)])
              /\ \A e \in PathItems(file[1]) :
                    \A p \in {AttributesOf(e.val)} \cup PropertiesOf(e.val, "filter")
                                \cup PropertiesOf(e.val, "sort") :
                       KeySeq(p) = KeySeq(Declared(e.key))

\* a second run completed on two types, the first one declaring age before name
C10_Witness ==
    /\ run = 2
    /\ Completed
    /\ KeySeq(file[1].paths) = <<"/person/search", "/document/search">>
    /\ KeySeq(AttributesOf(file[1].paths[1].val)) = <<"age", "name">>

\* a second run that failed as the first one did
C10_FailureWitness ==
    /\ run = 2
    /\ Failed
    /\ first[1].result = result

====
